---- MODULE Spec2Model ----
(***************************************************************************)
(* State-machine model of the remittance_split contract                    *)
(* (src/remittance_split/src/lib.rs).                                      *)
(*                                                                         *)
(* One action per contract entry point.  An entry point is modelled as a   *)
(* pure handler over the record of instance storage (State); the handler   *)
(* follows the Rust code statement by statement and returns the error it   *)
(* ends with and the storage it leaves.  HostFrame then applies the host's *)
(* invocation frame: an invocation that ends with Err(..) or a panic is    *)
(* rolled back, an invocation that ends with Ok(..) is committed.          *)
(*                                                                         *)
(* Integer widths.  TLC's integers are 32 bit, so u32, u64 and i128 are    *)
(* modelled at the reduced widths U32Bits < U64Bits < I128Bits.  All       *)
(* arithmetic is done as the code does it (unchecked `+` on u32, checked_* *)
(* on i128, wrapping_* on u64) relative to these widths.                   *)
(***************************************************************************)
EXTENDS Integers, Sequences, FiniteSets, TLC

\* ------------------------------------------------------------------ bounds
U32Bits == 8
U64Bits == 16
I128Bits == 20
MaxNonce == 2
InitialBalance == 8
MaxSchedules == 2
MaxLedgerBumps == 2
MaxEvents == 5
MaxRecords == 3
MaxSaved == 6

\* MAX_PAGE_LIMIT of bill_payments, insurance and savings_goals is 50; the cap
\* is modelled at this reduced size so that collections exceed it.
MAX_PAGE_LIMIT == 2

U32_MOD == 2 ^ U32Bits
U32_MAX == U32_MOD - 1
U64_MOD == 2 ^ U64Bits
U64_MAX == U64_MOD - 1
I128_MAX == 2 ^ (I128Bits - 1) - 1
I128_MIN == -I128_MAX - 1

\* ------------------------------------------------------- program constants
INSTANCE_LIFETIME_THRESHOLD == 17280
INSTANCE_BUMP_AMOUNT == 518400
SNAPSHOT_VERSION == 1
MAX_AUDIT_ENTRIES == 100
CONTRACT_VERSION == 1

\* LedgerInfo.min_persistent_entry_ttl of the ledger the contract is deployed on:
\* the lifetime the host gives the instance entry at deployment.
MIN_PERSISTENT_ENTRY_TTL == 100

\* --------------------------------------------------------------- universe
Addr == {"alice", "bob"}
Sinks == {"acc_spend", "acc_save", "acc_bills", "acc_ins"}
Accounts == Addr \cup Sinks
NoAddr == "none"

\* Percentage arguments tried by the callers: valid splits, splits whose sum
\* is not 100, and splits whose u32 sum exceeds u32::MAX.
PercentInputs ==
  { <<50, 30, 15, 5>>, <<33, 33, 33, 1>>, <<40, 30, 15, 5>>, <<U32_MAX, 101, 0, 0>> }

\* total_amount arguments tried for calculate_split / get_split_allocations.
AmountInputs ==
  { -1, 0, 7, 100, I128_MAX \div 100, I128_MAX \div 50, (I128_MAX \div 50) + 1,
    I128_MAX }

\* total_amount arguments tried for distribute_usdc.
DistributeInputs == { 0, 7, InitialBalance + 1 }

AccountGroups ==
  { [spending |-> "acc_spend", savings |-> "acc_save",
     bills |-> "acc_bills", insurance |-> "acc_ins"] }

RecordedOps == {"initialize_split", "update_split", "calculate_split"}

NonceOps == {"initialize_split", "update_split", "distribute_usdc", "import_snapshot"}

\* ------------------------------------------------------------------ state
VARIABLES
  config,           \* instance storage CONFIG : NoConfig or a SplitConfig
  split,            \* instance storage SPLIT  : NoSplit or <<u32,u32,u32,u32>>
  nonces,           \* instance storage NONCES : Addr -> u64 (absent = 0)
  audit,            \* instance storage AUDIT  : sequence of AuditEntry
  paused,           \* instance storage PAUSED (absent = FALSE)
  pause_adm,        \* instance storage PAUSE_ADM : NoAddr or an address
  upg_adm,          \* instance storage UPG_ADM   : NoAddr or an address
  stored_version,   \* instance storage VERSION   : None or Some(u32)
  schedules,        \* instance storage REM_SCH   : Map<u32, RemittanceSchedule>
  next_rsch,        \* instance storage NEXT_RSCH : None or Some(u32)
  ledger_seq,       \* env.ledger().sequence()
  live_until,       \* last ledger at which the instance entry is live
  event_log,        \* env.events().all() of a test environment that records events
  ok_calls,         \* history: per entry point, the successful calls recorded with event_log
  balances,         \* balances of the token contract passed to distribute_usdc
                    \* (alice holds InitialBalance, every other account 0)
  timestamp,        \* env.ledger().timestamp()
  overflow_checks,  \* build profile: does unchecked u32 `+` trap (TRUE) or wrap
  used,             \* history: <<address, nonce>> of every successful nonce-bearing call
  issued,           \* history: the ids returned by the successful create_remittance_schedule calls
  contract,         \* the contract under consideration
  records,          \* bill_payments / insurance / savings_goals: the map of bills / policies / goals
  pager,            \* a client's pagination loop over one owner's records, or NoPager
  last              \* the invocation whose result the caller is reading, or NoCall

vars == <<config, split, nonces, audit, paused, pause_adm, upg_adm, stored_version, schedules,
          next_rsch, ledger_seq, live_until, event_log, ok_calls, balances, timestamp,
          overflow_checks, used, issued, contract, records, pager, last>>

\* Option<T>: None carries a placeholder so that both shapes compare.
Some(x) == [some |-> TRUE, v |-> x]
None == [some |-> FALSE, v |-> 0]

\* struct SplitConfig
SplitConfig(owner, p, ts, initialized) ==
  [owner |-> owner, spending_percent |-> p[1], savings_percent |-> p[2],
   bills_percent |-> p[3], insurance_percent |-> p[4],
   timestamp |-> ts, initialized |-> initialized]

Percents(c) == <<c.spending_percent, c.savings_percent, c.bills_percent, c.insurance_percent>>

NoConfig == [some |-> FALSE, v |-> SplitConfig(NoAddr, <<0, 0, 0, 0>>, 0, FALSE)]
NoSplit == <<>>

\* The environment of one invocation: the instance storage, the token ledger,
\* the ledger timestamp, and the events published so far by the invocation.
State == [config |-> config, split |-> split, nonces |-> nonces, audit |-> audit,
          paused |-> paused, pause_adm |-> pause_adm, upg_adm |-> upg_adm,
          version |-> stored_version, schedules |-> schedules, next_rsch |-> next_rsch,
          ledger_seq |-> ledger_seq, live_until |-> live_until, balances |-> balances,
          timestamp |-> timestamp, events |-> <<>>]

\* Result<T, RemittanceSplitError> together with the storage the handler leaves.
Ok(s, v) == [err |-> "Ok", s |-> s, val |-> v]
Err(s, e) == [err |-> e, s |-> s, val |-> <<>>]

\* env.events().publish(topics, data)
publish(s, topics) == [s EXCEPT !.events = Append(@, topics)]

\* ------------------------------------------------------------- arithmetic
\* `a + b` on u32.  The sum is u32::MAX + 1 or more: the build either traps
\* (overflow checks on) or keeps the low 32 bits (overflow checks off).
Trap == -1
u32_add(a, b) ==
  IF a = Trap \/ b = Trap THEN Trap
  ELSE IF a + b > U32_MAX THEN (IF overflow_checks THEN Trap ELSE (a + b) % U32_MOD)
  ELSE a + b

\* Mutant: wrapping_mul in place of checked_mul.
checked_mul_wrapping(a, b) ==
  Some(((a * b - I128_MIN) % (2 * (I128_MAX + 1))) + I128_MIN)

\* i128::checked_mul, checked_div, checked_sub
checked_mul(a, b) ==
  IF a * b > I128_MAX \/ a * b < I128_MIN THEN None ELSE Some(a * b)

\* Mutant: the quotient is rounded up instead of truncated.
checked_div_round_up(a, b) ==
  IF b = 0 \/ (a = I128_MIN /\ b = -1) THEN None
  ELSE Some(-((-a) \div b))

checked_div(a, b) ==
  IF b = 0 \/ (a = I128_MIN /\ b = -1) THEN None
  ELSE LET abs(x) == IF x < 0 THEN -x ELSE x
           q == abs(a) \div abs(b)
       IN Some(IF (a < 0) = (b < 0) THEN q ELSE -q)

checked_sub(a, b) ==
  IF a - b > I128_MAX \/ a - b < I128_MIN THEN None ELSE Some(a - b)

\* Mutant: the percentage is divided by 100 before the multiplication.
mul_then_div_divides_first(total, percent) ==
  LET d == checked_div(percent, 100)
  IN IF d.some THEN checked_mul(total, d.v) ELSE None

\* total.checked_mul(percent).and_then(|n| n.checked_div(100))
mul_then_div(total, percent) ==
  LET m == checked_mul(total, percent)
  IN IF m.some THEN checked_div(m.v, 100) ELSE None

\* o.and_then(|n| n.checked_sub(b))
then_sub(o, b) == IF o.some THEN checked_sub(o.v, b) ELSE None

\* u64::checked_add
checked_add(a, b) == IF a + b > U64_MAX THEN None ELSE Some(a + b)

\* u64::wrapping_add, wrapping_mul
wrapping_add(a, b) == (a + b) % U64_MOD
wrapping_mul(a, b) == (a * b) % U64_MOD

\* ---------------------------------------------------------------- helpers
get_global_paused(s) == s.paused

require_not_paused(s) == IF get_global_paused(s) THEN "Unauthorized" ELSE "Ok"

get_pause_admin(s) == s.pause_adm

get_nonce_value(s, address) == s.nonces[address]

\* Mutant: the nonce presented is never compared with the stored one.
require_nonce_unchecked(s, address, expected) == "Ok"

require_nonce(s, address, expected) ==
  LET current == get_nonce_value(s, address)
  IN IF expected # current THEN "InvalidNonce" ELSE "Ok"

increment_nonce(s, address) ==
  LET current == get_nonce_value(s, address)
      next == checked_add(current, 1)
  IN IF ~next.some THEN Err(s, "Overflow")
     ELSE Ok([s EXCEPT !.nonces[address] = next.v], <<>>)

compute_checksum(version, c) ==
  wrapping_mul(
    wrapping_add(wrapping_add(wrapping_add(wrapping_add(version,
      c.spending_percent), c.savings_percent), c.bills_percent), c.insurance_percent),
    31)

append_audit(s, operation, caller, success) ==
  LET log == IF Len(s.audit) >= MAX_AUDIT_ENTRIES THEN Tail(s.audit) ELSE s.audit
  IN [s EXCEPT !.audit = Append(log, [operation |-> operation, caller |-> caller,
                                      timestamp |-> s.timestamp, success |-> success])]

\* Mutant: without a stored SPLIT the percentages come back as zeros.
get_split_zero_default(s) == IF s.split = NoSplit THEN <<0, 0, 0, 0>> ELSE s.split

get_split(s) == IF s.split = NoSplit THEN <<50, 30, 15, 5>> ELSE s.split

get_config(s) == s.config

\* storage().instance().get_ttl(): ledgers left before the instance entry expires.
get_ttl(s) == s.live_until - s.ledger_seq

\* Mutant: the lifetime is extended by the threshold, not by the bump amount.
extend_instance_ttl_by_threshold(s) ==
  IF get_ttl(s) <= INSTANCE_LIFETIME_THRESHOLD
       /\ s.ledger_seq + INSTANCE_LIFETIME_THRESHOLD > s.live_until
    THEN [s EXCEPT !.live_until = s.ledger_seq + INSTANCE_LIFETIME_THRESHOLD]
  ELSE s

\* storage().instance().extend_ttl(threshold, extend_to): when the remaining
\* lifetime is at or below threshold the entry is made live until
\* ledger_seq + extend_to; otherwise nothing changes.  The contents of
\* instance storage are not touched.
extend_instance_ttl(s) ==
  IF get_ttl(s) <= INSTANCE_LIFETIME_THRESHOLD
       /\ s.ledger_seq + INSTANCE_BUMP_AMOUNT > s.live_until
    THEN [s EXCEPT !.live_until = s.ledger_seq + INSTANCE_BUMP_AMOUNT]
  ELSE s


\* ------------------------------------------------------------ entry points
\* Every handler takes the invocation environment s and whether the host
\* finds the address passed to require_auth to have authorized the call.

pause(s, caller, auth) ==
  IF ~auth THEN Err(s, "AuthFailed")
  ELSE IF ~s.config.some THEN Err(s, "NotInitialized")
  ELSE LET admin == IF get_pause_admin(s) # NoAddr THEN get_pause_admin(s)
                    ELSE s.config.v.owner
       IN IF admin # caller THEN Err(s, "Unauthorized")
          ELSE Ok(publish([s EXCEPT !.paused = TRUE], <<"split", "paused">>), <<>>)

unpause(s, caller, auth) ==
  IF ~auth THEN Err(s, "AuthFailed")
  ELSE IF ~s.config.some THEN Err(s, "NotInitialized")
  ELSE LET admin == IF get_pause_admin(s) # NoAddr THEN get_pause_admin(s)
                    ELSE s.config.v.owner
       IN IF admin # caller THEN Err(s, "Unauthorized")
          ELSE Ok(publish([s EXCEPT !.paused = FALSE], <<"split", "unpaused">>), <<>>)

set_pause_admin(s, caller, auth, new_admin) ==
  IF ~auth THEN Err(s, "AuthFailed")
  ELSE IF ~s.config.some THEN Err(s, "NotInitialized")
  ELSE IF s.config.v.owner # caller THEN Err(s, "Unauthorized")
  ELSE Ok([s EXCEPT !.pause_adm = new_admin], <<>>)

get_version(s) == IF s.version.some THEN s.version.v ELSE CONTRACT_VERSION

get_upgrade_admin(s) == s.upg_adm

set_upgrade_admin(s, caller, auth, new_admin) ==
  IF ~auth THEN Err(s, "AuthFailed")
  ELSE IF ~s.config.some THEN Err(s, "NotInitialized")
  ELSE IF s.config.v.owner # caller THEN Err(s, "Unauthorized")
  ELSE Ok([s EXCEPT !.upg_adm = new_admin], <<>>)

set_version(s, caller, auth, new_version) ==
  IF ~auth THEN Err(s, "AuthFailed")
  ELSE IF ~s.config.some THEN Err(s, "NotInitialized")
  ELSE LET admin == IF get_upgrade_admin(s) # NoAddr THEN get_upgrade_admin(s)
                    ELSE s.config.v.owner
       IN IF admin # caller THEN Err(s, "Unauthorized")
          ELSE Ok(publish([s EXCEPT !.version = Some(new_version)],
                          <<"split", "upgraded">>), <<>>)

\* Mutant: the check for an existing CONFIG is missing.
initialize_split_again(s, owner, auth, nonce, p) ==
  IF ~auth THEN Err(s, "AuthFailed")
  ELSE IF require_not_paused(s) # "Ok" THEN Err(s, require_not_paused(s))
  ELSE IF require_nonce(s, owner, nonce) # "Ok" THEN Err(s, require_nonce(s, owner, nonce))
  ELSE LET total == u32_add(u32_add(u32_add(p[1], p[2]), p[3]), p[4])
       IN IF total = Trap THEN Err(s, "Panic")
          ELSE IF total # 100
            THEN Err(append_audit(s, "init", owner, FALSE), "PercentagesDoNotSumTo100")
          ELSE LET s1 == extend_instance_ttl(s)
                   s2 == [s1 EXCEPT !.config = Some(SplitConfig(owner, p, s.timestamp, TRUE)),
                                    !.split = p]
                   inc == increment_nonce(s2, owner)
               IN IF inc.err # "Ok" THEN inc
                  ELSE Ok(publish(append_audit(inc.s, "init", owner, TRUE),
                                  <<"split", "Initialized">>), TRUE)

initialize_split(s, owner, auth, nonce, p) ==
  IF ~auth THEN Err(s, "AuthFailed")
  ELSE IF require_not_paused(s) # "Ok" THEN Err(s, require_not_paused(s))
  ELSE IF require_nonce(s, owner, nonce) # "Ok" THEN Err(s, require_nonce(s, owner, nonce))
  ELSE IF s.config.some
    THEN Err(append_audit(s, "init", owner, FALSE), "AlreadyInitialized")
  ELSE LET total == u32_add(u32_add(u32_add(p[1], p[2]), p[3]), p[4])
       IN IF total = Trap THEN Err(s, "Panic")
          ELSE IF total # 100
            THEN Err(append_audit(s, "init", owner, FALSE), "PercentagesDoNotSumTo100")
          ELSE LET s1 == extend_instance_ttl(s)
                   s2 == [s1 EXCEPT !.config = Some(SplitConfig(owner, p, s.timestamp, TRUE)),
                                    !.split = p]
                   inc == increment_nonce(s2, owner)
               IN IF inc.err # "Ok" THEN inc
                  ELSE Ok(publish(append_audit(inc.s, "init", owner, TRUE),
                                  <<"split", "Initialized">>), TRUE)

\* Mutant: the comparison of the caller with config.owner is missing.
update_split_any_caller(s, caller, auth, nonce, p) ==
  IF ~auth THEN Err(s, "AuthFailed")
  ELSE IF require_not_paused(s) # "Ok" THEN Err(s, require_not_paused(s))
  ELSE IF require_nonce(s, caller, nonce) # "Ok" THEN Err(s, require_nonce(s, caller, nonce))
  ELSE IF ~s.config.some THEN Err(s, "NotInitialized")
  ELSE LET total == u32_add(u32_add(u32_add(p[1], p[2]), p[3]), p[4])
       IN IF total = Trap THEN Err(s, "Panic")
          ELSE IF total # 100
            THEN Err(append_audit(s, "update", caller, FALSE), "PercentagesDoNotSumTo100")
          ELSE LET s1 == extend_instance_ttl(s)
                   c  == [s.config.v EXCEPT !.spending_percent = p[1],
                                            !.savings_percent = p[2],
                                            !.bills_percent = p[3],
                                            !.insurance_percent = p[4]]
                   s2 == [s1 EXCEPT !.config = Some(c), !.split = p]
               IN Ok(publish(publish(s2, <<"init">>), <<"split", "Updated">>), TRUE)


update_split(s, caller, auth, nonce, p) ==
  IF ~auth THEN Err(s, "AuthFailed")
  ELSE IF require_not_paused(s) # "Ok" THEN Err(s, require_not_paused(s))
  ELSE IF require_nonce(s, caller, nonce) # "Ok" THEN Err(s, require_nonce(s, caller, nonce))
  ELSE IF ~s.config.some THEN Err(s, "NotInitialized")
  ELSE IF s.config.v.owner # caller
    THEN Err(append_audit(s, "update", caller, FALSE), "Unauthorized")
  ELSE LET total == u32_add(u32_add(u32_add(p[1], p[2]), p[3]), p[4])
       IN IF total = Trap THEN Err(s, "Panic")
          ELSE IF total # 100
            THEN Err(append_audit(s, "update", caller, FALSE), "PercentagesDoNotSumTo100")
          ELSE LET s1 == extend_instance_ttl(s)
                   c  == [s.config.v EXCEPT !.spending_percent = p[1],
                                            !.savings_percent = p[2],
                                            !.bills_percent = p[3],
                                            !.insurance_percent = p[4]]
                   s2 == [s1 EXCEPT !.config = Some(c), !.split = p]
               IN Ok(publish(publish(s2, <<"init">>), <<"split", "Updated">>), TRUE)


\* Mutant: insurance is computed from its percentage like the other three
\* amounts instead of as the remainder.
calculate_split_amounts_by_percent(s, total_amount, emit_events) ==
  IF total_amount <= 0 THEN Err(s, "InvalidAmount")
  ELSE
    LET sp == get_split(s)
        s0 == sp[1]
        s1 == sp[2]
        s2 == sp[3]
        spending == mul_then_div(total_amount, s0)
        savings  == mul_then_div(total_amount, s1)
        bills    == mul_then_div(total_amount, s2)
    IN IF ~spending.some THEN Err(s, "Overflow")
       ELSE IF ~savings.some THEN Err(s, "Overflow")
       ELSE IF ~bills.some THEN Err(s, "Overflow")
       ELSE
         LET insurance ==
               mul_then_div(total_amount, sp[4])
         IN IF ~insurance.some THEN Err(s, "Overflow")
            ELSE Ok(IF emit_events
                      THEN publish(publish(s, <<"calc">>), <<"split", "Calculated">>)
                      ELSE s,
                    <<spending.v, savings.v, bills.v, insurance.v>>)

calculate_split_amounts(s, total_amount, emit_events) ==
  IF total_amount <= 0 THEN Err(s, "InvalidAmount")
  ELSE
    LET sp == get_split(s)
        s0 == sp[1]
        s1 == sp[2]
        s2 == sp[3]
        spending == mul_then_div(total_amount, s0)
        savings  == mul_then_div(total_amount, s1)
        bills    == mul_then_div(total_amount, s2)
    IN IF ~spending.some THEN Err(s, "Overflow")
       ELSE IF ~savings.some THEN Err(s, "Overflow")
       ELSE IF ~bills.some THEN Err(s, "Overflow")
       ELSE
         LET insurance ==
               then_sub(then_sub(checked_sub(total_amount, spending.v), savings.v), bills.v)
         IN IF ~insurance.some THEN Err(s, "Overflow")
            ELSE Ok(IF emit_events
                      THEN publish(publish(s, <<"calc">>), <<"split", "Calculated">>)
                      ELSE s,
                    <<spending.v, savings.v, bills.v, insurance.v>>)

\* Mutant: the (SPLIT_CALCULATED,) event is not published.
calculate_split_one_event(s, total_amount) ==
  LET r == calculate_split_amounts(s, total_amount, FALSE)
  IN IF r.err # "Ok" THEN r
     ELSE Ok(publish(r.s, <<"split", "Calculated">>), r.val)

\* Mutant: the amount guard is `total_amount < 0`, so a zero total is split.
calculate_split_zero_ok(s, total_amount) ==
  IF total_amount = 0
    THEN Ok(publish(publish(s, <<"calc">>), <<"split", "Calculated">>), <<0, 0, 0, 0>>)
  ELSE calculate_split_amounts(s, total_amount, TRUE)

calculate_split(s, total_amount) ==
  calculate_split_amounts(s, total_amount, TRUE)

\* The allocations carry the four amounts of calculate_split, in order, each
\* tagged with its category.
get_split_allocations(s, total_amount) ==
  LET r == calculate_split(s, total_amount)
      categories == <<"SPENDING", "SAVINGS", "BILLS", "INSURANCE">>
  IN IF r.err # "Ok" THEN r
     ELSE Ok(r.s, [i \in 1..4 |-> [category |-> categories[i], amount |-> r.val[i]]])

\* TokenClient::transfer of the token contract: traps when `from` holds less
\* than `amount`, otherwise moves `amount` from `from` to `to`.
token_transfer(r, from, to, amount) ==
  IF r.err # "Ok" THEN r
  ELSE IF r.s.balances[from] < amount THEN Err(r.s, "Panic")
  ELSE LET b1 == [r.s.balances EXCEPT ![from] = @ - amount]
           b2 == [b1 EXCEPT ![to] = @ + amount]
       IN Ok([r.s EXCEPT !.balances = b2], <<>>)

distribute_usdc(s, from, auth, nonce, accounts, total_amount) ==
  IF total_amount <= 0
    THEN Err(append_audit(s, "distrib", from, FALSE), "InvalidAmount")
  ELSE IF ~auth THEN Err(s, "AuthFailed")
  ELSE IF require_nonce(s, from, nonce) # "Ok" THEN Err(s, require_nonce(s, from, nonce))
  ELSE LET calc == calculate_split_amounts(s, total_amount, FALSE)
       IN IF calc.err # "Ok" THEN calc
          ELSE
            LET amounts == calc.val
                t0 == Ok(calc.s, <<>>)
                t1 == IF amounts[1] > 0
                        THEN token_transfer(t0, from, accounts.spending, amounts[1]) ELSE t0
                t2 == IF amounts[2] > 0
                        THEN token_transfer(t1, from, accounts.savings, amounts[2]) ELSE t1
                t3 == IF amounts[3] > 0
                        THEN token_transfer(t2, from, accounts.bills, amounts[3]) ELSE t2
                t4 == IF amounts[4] > 0
                        THEN token_transfer(t3, from, accounts.insurance, amounts[4]) ELSE t3
            IN IF t4.err # "Ok" THEN t4
               ELSE LET inc == increment_nonce(t4.s, from)
                    IN IF inc.err # "Ok" THEN inc
                       ELSE Ok(append_audit(inc.s, "distrib", from, TRUE), TRUE)

\* struct ExportSnapshot
ExportSnapshot(version, checksum, c) ==
  [version |-> version, checksum |-> checksum, config |-> c]

\* Mutant: the comparison of the caller with the stored owner is missing.
import_snapshot_any_caller(s, caller, auth, nonce, snapshot) ==
  IF ~auth THEN Err(s, "AuthFailed")
  ELSE IF require_nonce(s, caller, nonce) # "Ok" THEN Err(s, require_nonce(s, caller, nonce))
  ELSE IF snapshot.version # SNAPSHOT_VERSION
    THEN Err(append_audit(s, "import", caller, FALSE), "UnsupportedVersion")
  ELSE IF snapshot.checksum # compute_checksum(snapshot.version, snapshot.config)
    THEN Err(append_audit(s, "import", caller, FALSE), "ChecksumMismatch")
  ELSE IF ~s.config.some THEN Err(s, "NotInitialized")
  ELSE LET c == snapshot.config
           total == u32_add(u32_add(u32_add(c.spending_percent, c.savings_percent),
                                    c.bills_percent), c.insurance_percent)
       IN IF total = Trap THEN Err(s, "Panic")
          ELSE IF total # 100
            THEN Err(append_audit(s, "import", caller, FALSE), "PercentagesDoNotSumTo100")
          ELSE LET s1 == extend_instance_ttl(s)
                   s2 == [s1 EXCEPT !.config = Some(c), !.split = Percents(c)]
                   inc == increment_nonce(s2, caller)
               IN IF inc.err # "Ok" THEN inc
                  ELSE Ok(append_audit(inc.s, "import", caller, TRUE), TRUE)

import_snapshot(s, caller, auth, nonce, snapshot) ==
  IF ~auth THEN Err(s, "AuthFailed")
  ELSE IF require_nonce(s, caller, nonce) # "Ok" THEN Err(s, require_nonce(s, caller, nonce))
  ELSE IF snapshot.version # SNAPSHOT_VERSION
    THEN Err(append_audit(s, "import", caller, FALSE), "UnsupportedVersion")
  ELSE IF snapshot.checksum # compute_checksum(snapshot.version, snapshot.config)
    THEN Err(append_audit(s, "import", caller, FALSE), "ChecksumMismatch")
  ELSE IF ~s.config.some THEN Err(s, "NotInitialized")
  ELSE IF s.config.v.owner # caller
    THEN Err(append_audit(s, "import", caller, FALSE), "Unauthorized")
  ELSE LET c == snapshot.config
           total == u32_add(u32_add(u32_add(c.spending_percent, c.savings_percent),
                                    c.bills_percent), c.insurance_percent)
       IN IF total = Trap THEN Err(s, "Panic")
          ELSE IF total # 100
            THEN Err(append_audit(s, "import", caller, FALSE), "PercentagesDoNotSumTo100")
          ELSE LET s1 == extend_instance_ttl(s)
                   s2 == [s1 EXCEPT !.config = Some(c), !.split = Percents(c)]
                   inc == increment_nonce(s2, caller)
               IN IF inc.err # "Ok" THEN inc
                  ELSE Ok(append_audit(inc.s, "import", caller, TRUE), TRUE)

\* struct RemittanceSchedule
RemittanceSchedule(id, owner, amount, next_due, interval, created_at) ==
  [id |-> id, owner |-> owner, amount |-> amount, next_due |-> next_due,
   interval |-> interval, recurring |-> interval > 0, active |-> TRUE,
   created_at |-> created_at, last_executed |-> None, missed_count |-> 0]

\* Map::set
map_set(m, k, v) == [i \in DOMAIN m \cup {k} |-> IF i = k THEN v ELSE m[i]]

\* Mutant: the id is taken from NEXT_RSCH without the `+ 1`.
next_schedule_id_not_incremented(s) ==
  IF s.next_rsch.some THEN s.next_rsch.v ELSE 0

\* NEXT_RSCH.unwrap_or(0u32) + 1
next_schedule_id(s) == u32_add(IF s.next_rsch.some THEN s.next_rsch.v ELSE 0, 1)

create_remittance_schedule(s, owner, auth, amount, next_due, interval) ==
  IF ~auth THEN Err(s, "AuthFailed")
  ELSE IF amount <= 0 THEN Err(s, "InvalidAmount")
  ELSE LET current_time == s.timestamp
       IN IF next_due <= current_time THEN Err(s, "InvalidDueDate")
          ELSE LET s1 == extend_instance_ttl(s)
                   id == next_schedule_id(s1)
               IN IF id = Trap THEN Err(s1, "Panic")
                  ELSE LET schedule == RemittanceSchedule(id, owner, amount, next_due,
                                                          interval, current_time)
                           s2 == [s1 EXCEPT !.schedules = map_set(@, id, schedule),
                                            !.next_rsch = Some(id)]
                       IN Ok(publish(s2, <<"schedule", "Created">>), id)

modify_remittance_schedule(s, caller, auth, schedule_id, amount, next_due, interval) ==
  IF ~auth THEN Err(s, "AuthFailed")
  ELSE IF amount <= 0 THEN Err(s, "InvalidAmount")
  ELSE IF next_due <= s.timestamp THEN Err(s, "InvalidDueDate")
  ELSE LET s1 == extend_instance_ttl(s)
       IN IF schedule_id \notin DOMAIN s1.schedules THEN Err(s1, "ScheduleNotFound")
          ELSE IF s1.schedules[schedule_id].owner # caller THEN Err(s1, "Unauthorized")
          ELSE LET schedule == [s1.schedules[schedule_id] EXCEPT
                                  !.amount = amount, !.next_due = next_due,
                                  !.interval = interval, !.recurring = interval > 0]
                   s2 == [s1 EXCEPT !.schedules = map_set(@, schedule_id, schedule)]
               IN Ok(publish(s2, <<"schedule", "Modified">>), TRUE)

\* Mutant: caller.require_auth() is missing.
cancel_remittance_schedule_no_auth(s, caller, auth, schedule_id) ==
  LET s1 == extend_instance_ttl(s)
  IN IF schedule_id \notin DOMAIN s1.schedules THEN Err(s1, "ScheduleNotFound")
     ELSE IF s1.schedules[schedule_id].owner # caller THEN Err(s1, "Unauthorized")
     ELSE LET schedule == [s1.schedules[schedule_id] EXCEPT !.active = FALSE]
              s2 == [s1 EXCEPT !.schedules = map_set(@, schedule_id, schedule)]
          IN Ok(publish(s2, <<"schedule", "Cancelled">>), TRUE)

cancel_remittance_schedule(s, caller, auth, schedule_id) ==
  IF ~auth THEN Err(s, "AuthFailed")
  ELSE LET s1 == extend_instance_ttl(s)
       IN IF schedule_id \notin DOMAIN s1.schedules THEN Err(s1, "ScheduleNotFound")
          ELSE IF s1.schedules[schedule_id].owner # caller THEN Err(s1, "Unauthorized")
          ELSE LET schedule == [s1.schedules[schedule_id] EXCEPT !.active = FALSE]
                   s2 == [s1 EXCEPT !.schedules = map_set(@, schedule_id, schedule)]
               IN Ok(publish(s2, <<"schedule", "Cancelled">>), TRUE)


\* ------------------------------- bill_payments, insurance, savings_goals
\* The three contracts keep their bills / policies / goals in one map from a
\* counter-issued id to the record; every record names its owner.  A bill is
\* open while unpaid, a policy while active.
RecordContracts == {"bill_payments", "insurance", "savings_goals"}

Record(id, owner, amount) ==
  [id |-> id, owner |-> owner, amount |-> amount, open |-> TRUE, current_amount |-> 0]

\* create_bill / create_policy / create_goal
create_record(recs, owner, amount) ==
  IF amount <= 0 THEN [err |-> "InvalidAmount", recs |-> recs, val |-> 0]
  ELSE LET id == Len(recs) + 1
       IN [err |-> "Ok", recs |-> Append(recs, Record(id, owner, amount)), val |-> id]

\* pay_bill / deactivate_policy
close_record(recs, caller, id) ==
  IF id \notin DOMAIN recs THEN [err |-> "NotFound", recs |-> recs, val |-> 0]
  ELSE IF recs[id].owner # caller THEN [err |-> "Unauthorized", recs |-> recs, val |-> 0]
  ELSE IF ~recs[id].open THEN [err |-> "AlreadyClosed", recs |-> recs, val |-> 0]
  ELSE [err |-> "Ok", recs |-> [recs EXCEPT ![id].open = FALSE], val |-> 0]

\* Mutant: the caller is not compared with the owner of the goal.
add_to_goal_any_caller(recs, caller, goal_id, amount) ==
  IF goal_id \notin DOMAIN recs THEN [err |-> "GoalNotFound", recs |-> recs, val |-> 0]
  ELSE IF amount <= 0 THEN [err |-> "InvalidAmount", recs |-> recs, val |-> 0]
  ELSE [err |-> "Ok", recs |-> [recs EXCEPT ![goal_id].current_amount = @ + amount],
        val |-> recs[goal_id].current_amount + amount]

\* savings_goals add_to_goal
add_to_goal(recs, caller, goal_id, amount) ==
  IF goal_id \notin DOMAIN recs THEN [err |-> "GoalNotFound", recs |-> recs, val |-> 0]
  ELSE IF recs[goal_id].owner # caller
    THEN [err |-> "Unauthorized", recs |-> recs, val |-> 0]
  ELSE IF amount <= 0 THEN [err |-> "InvalidAmount", recs |-> recs, val |-> 0]
  ELSE [err |-> "Ok", recs |-> [recs EXCEPT ![goal_id].current_amount = @ + amount],
        val |-> recs[goal_id].current_amount + amount]

\* savings_goals get_goal
get_goal(recs, goal_id) == IF goal_id \in DOMAIN recs THEN Some(recs[goal_id]) ELSE None

\* The records a paginated query of the contract returns for an owner:
\* get_unpaid_bills the unpaid bills, get_active_policies the active
\* policies, get_goals every goal.
matches(c, rec, owner) ==
  rec.owner = owner /\ (c = "savings_goals" \/ rec.open)

\* Mutant: the records of every owner are summed.
get_total_all_owners(c, recs, owner) ==
  LET sum[i \in 0..Len(recs)] ==
        IF i = 0 THEN 0
        ELSE sum[i - 1] + (IF recs[i].open THEN recs[i].amount ELSE 0)
  IN sum[Len(recs)]

\* get_total_unpaid / get_total_monthly_premium
get_total(c, recs, owner) ==
  LET sum[i \in 0..Len(recs)] ==
        IF i = 0 THEN 0
        ELSE sum[i - 1] + (IF matches(c, recs[i], owner) THEN recs[i].amount ELSE 0)
  IN sum[Len(recs)]

\* get_all_goals
get_all(recs, owner) == {i \in DOMAIN recs : recs[i].owner = owner}

clamp_limit(limit) == IF limit > MAX_PAGE_LIMIT THEN MAX_PAGE_LIMIT ELSE limit

\* Mutant: the page starts at the cursor itself, not after it.
get_page_from_cursor(c, recs, owner, cursor, limit) ==
  LET lim == clamp_limit(limit)
      cand == {i \in DOMAIN recs : i >= cursor /\ matches(c, recs[i], owner)}
      items == {i \in cand : Cardinality({j \in cand : j < i}) < lim}
      last_id == IF items = {} THEN 0 ELSE CHOOSE i \in items : \A j \in items : j <= i
      next_cursor ==
        IF c = "bill_payments" THEN (IF cand # items THEN last_id ELSE 0)
        ELSE (IF Cardinality(items) = lim THEN last_id ELSE 0)
  IN [items |-> items, count |-> Cardinality(items), next_cursor |-> next_cursor]

\* get_unpaid_bills / get_active_policies / get_goals (owner, cursor, limit):
\* the first `limit` (at most MAX_PAGE_LIMIT) matching records with an id
\* above the cursor, in id order.  next_cursor is the last id returned, or 0
\* at the end: bill_payments reports the end when no matching record is left,
\* insurance and savings_goals when the page is not full.
get_page(c, recs, owner, cursor, limit) ==
  LET lim == clamp_limit(limit)
      cand == {i \in DOMAIN recs : i > cursor /\ matches(c, recs[i], owner)}
      items == {i \in cand : Cardinality({j \in cand : j < i}) < lim}
      last_id == IF items = {} THEN 0 ELSE CHOOSE i \in items : \A j \in items : j <= i
      next_cursor ==
        IF c = "bill_payments" THEN (IF cand # items THEN last_id ELSE 0)
        ELSE (IF Cardinality(items) = lim THEN last_id ELSE 0)
  IN [items |-> items, count |-> Cardinality(items), next_cursor |-> next_cursor]

NoPager == [owner |-> NoAddr, limit |-> 0, cursor |-> 0, seen |-> {}, collected |-> 0,
            pages |-> 0, largest |-> 0, done |-> FALSE]


\* -------------------------------------------------------------- host frame
\* The host runs an entry point in a frame: storage writes, token transfers
\* and events of an invocation that ends with an error or a trap are rolled
\* back; those of an invocation that returns Ok are committed.
\* Mutant: the writes of a failed invocation are kept.
HostFrame_keeps_writes(r) == r

HostFrame(r) == IF r.err = "Ok" THEN r ELSE [r EXCEPT !.s = State]

NoSnapshot == ExportSnapshot(0, 0, NoConfig.v)

\* Snapshots presented to import_snapshot: well-formed ones for either owner,
\* one of an unsupported version, one with a wrong checksum.
SnapshotPercents == { <<33, 33, 33, 1>>, <<40, 30, 15, 5>> }
SnapshotInputs ==
  { ExportSnapshot(SNAPSHOT_VERSION,
                   compute_checksum(SNAPSHOT_VERSION, SplitConfig(o, p, 0, TRUE)),
                   SplitConfig(o, p, 0, TRUE)) : o \in Addr, p \in SnapshotPercents }
  \cup
  { ExportSnapshot(SNAPSHOT_VERSION + 1,
                   compute_checksum(SNAPSHOT_VERSION + 1, SplitConfig("alice", <<33, 33, 33, 1>>, 0, TRUE)),
                   SplitConfig("alice", <<33, 33, 33, 1>>, 0, TRUE)),
    ExportSnapshot(SNAPSHOT_VERSION,
                   compute_checksum(SNAPSHOT_VERSION, SplitConfig("alice", <<33, 33, 33, 1>>, 0, TRUE)) + 1,
                   SplitConfig("alice", <<33, 33, 33, 1>>, 0, TRUE)) }

\* Whether the host finds the call authorized by the address it names.
AuthInputs == {TRUE}

NoCall == [op |-> "none", caller |-> NoAddr, auth |-> TRUE, nonce |-> 0, pct |-> <<>>,
           version |-> 0, checksum |-> 0, amount |-> 0,
           err |-> "Ok", amounts |-> <<>>, id |-> 0, events |-> <<>>]

\* One invocation of entry point op with result r (already framed): commit
\* the storage it leaves and hand the call and its result to the caller.
\* Invocations are transactions: one is applied after the other.  An instance
\* entry past its lifetime is archived and cannot be invoked.
Commit(op, caller, auth, nonce, pct, snapshot, amount, r) ==
  /\ last = NoCall
  /\ ledger_seq <= live_until
  /\ \A a \in Addr : r.s.nonces[a] <= MaxNonce \/ r.s.nonces[a] = nonces[a]
  /\ config' = r.s.config
  /\ split' = r.s.split
  /\ nonces' = r.s.nonces
  /\ audit' = r.s.audit
  /\ paused' = r.s.paused
  /\ pause_adm' = r.s.pause_adm
  /\ upg_adm' = r.s.upg_adm
  /\ stored_version' = r.s.version
  /\ schedules' = r.s.schedules
  /\ next_rsch' = r.s.next_rsch
  /\ live_until' = r.s.live_until
  /\ balances' = r.s.balances
  /\ used' = IF r.err = "Ok" /\ op \in NonceOps THEN used \cup {<<caller, nonce>>} ELSE used
  /\ issued' = IF r.err = "Ok" /\ op = "create_remittance_schedule"
                 THEN Append(issued, r.val) ELSE issued
  /\ last' = [op |-> op, caller |-> caller, auth |-> auth, nonce |-> nonce, pct |-> pct,
              version |-> snapshot.version, checksum |-> snapshot.checksum,
              amount |-> amount, err |-> r.err,
              amounts |-> IF r.err = "Ok" /\ op = "calculate_split" THEN r.val
                          ELSE IF r.err = "Ok" /\ op = "get_split_allocations"
                            THEN [i \in 1..4 |-> r.val[i].amount]
                          ELSE <<>>,
              id |-> IF r.err = "Ok" /\ op = "create_remittance_schedule" THEN r.val
                     ELSE 0,
              events |-> r.s.events]
  /\ UNCHANGED <<ledger_seq, timestamp, overflow_checks, contract, records, pager>>

\* An invocation in an environment that does not keep the published events.
Invoke(op, caller, auth, nonce, pct, snapshot, amount, r) ==
  /\ Commit(op, caller, auth, nonce, pct, snapshot, amount, r)
  /\ UNCHANGED <<event_log, ok_calls>>

\* An invocation in a test environment: env.events().all() keeps the events
\* of every committed invocation, in order.
InvokeRecorded(op, caller, auth, nonce, pct, snapshot, amount, r) ==
  /\ Commit(op, caller, auth, nonce, pct, snapshot, amount, r)
  /\ Len(event_log) + Len(r.s.events) <= MaxEvents
  /\ event_log' = event_log \o r.s.events
  /\ ok_calls' = IF r.err = "Ok" /\ op \in RecordedOps
                   THEN [ok_calls EXCEPT ![op] = @ + 1] ELSE ok_calls

\* A freshly deployed contract: nothing in instance storage, alice funded.
InitStorage ==
  /\ config = NoConfig
  /\ split = NoSplit
  /\ nonces = [a \in Addr |-> 0]
  /\ audit = <<>>
  /\ paused = FALSE
  /\ pause_adm = NoAddr
  /\ upg_adm = NoAddr
  /\ stored_version = None
  /\ schedules = <<>>
  /\ next_rsch = None
  /\ ledger_seq = 0
  /\ live_until = MIN_PERSISTENT_ENTRY_TTL
  /\ event_log = <<>>
  /\ ok_calls = [op \in RecordedOps |-> 0]
  /\ balances = [a \in Accounts |-> IF a = "alice" THEN InitialBalance ELSE 0]
  /\ timestamp = 0
  /\ used = {}
  /\ issued = <<>>
  /\ records = <<>>
  /\ pager = NoPager
  /\ last = NoCall

Init ==
  /\ InitStorage
  /\ overflow_checks \in BOOLEAN
  /\ contract = "remittance_split"

InitializeSplit ==
  \E owner \in Addr, auth \in AuthInputs, nonce \in 0..MaxNonce, p \in PercentInputs :
    Invoke("initialize_split", owner, auth, nonce, p, NoSnapshot, 0,
           HostFrame(initialize_split(State, owner, auth, nonce, p)))

UpdateSplit ==
  \E caller \in Addr, auth \in AuthInputs, nonce \in 0..MaxNonce, p \in PercentInputs :
    Invoke("update_split", caller, auth, nonce, p, NoSnapshot, 0,
           HostFrame(update_split(State, caller, auth, nonce, p)))

ImportSnapshot ==
  \E caller \in Addr, auth \in AuthInputs, nonce \in 0..MaxNonce, snap \in SnapshotInputs :
    Invoke("import_snapshot", caller, auth, nonce, Percents(snap.config), snap, 0,
           HostFrame(import_snapshot(State, caller, auth, nonce, snap)))

DistributeUsdc ==
  \E from \in Addr, auth \in AuthInputs, nonce \in 0..MaxNonce,
     accounts \in AccountGroups, total_amount \in DistributeInputs :
    Invoke("distribute_usdc", from, auth, nonce, <<>>, NoSnapshot, total_amount,
           HostFrame(distribute_usdc(State, from, auth, nonce, accounts, total_amount)))

CalculateSplit ==
  \E total_amount \in AmountInputs :
    Invoke("calculate_split", NoAddr, TRUE, 0, <<>>, NoSnapshot, total_amount,
           HostFrame(calculate_split(State, total_amount)))

GetSplitAllocations ==
  \E total_amount \in AmountInputs :
    Invoke("get_split_allocations", NoAddr, TRUE, 0, <<>>, NoSnapshot, total_amount,
           HostFrame(get_split_allocations(State, total_amount)))

Pause ==
  \E caller \in Addr, auth \in AuthInputs :
    Invoke("pause", caller, auth, 0, <<>>, NoSnapshot, 0, HostFrame(pause(State, caller, auth)))

Unpause ==
  \E caller \in Addr, auth \in AuthInputs :
    Invoke("unpause", caller, auth, 0, <<>>, NoSnapshot, 0, HostFrame(unpause(State, caller, auth)))

\* The caller has read the result; the next invocation may be submitted.
ReturnToCaller ==
  /\ last # NoCall
  /\ last' = NoCall
  /\ UNCHANGED <<config, split, nonces, audit, paused, pause_adm, upg_adm, stored_version,
                 schedules, next_rsch, ledger_seq, live_until, event_log, ok_calls,
                 balances, timestamp, overflow_checks, used, issued, contract, records, pager>>

Next ==
  \/ InitializeSplit
  \/ UpdateSplit
  \/ ImportSnapshot
  \/ DistributeUsdc
  \/ CalculateSplit
  \/ GetSplitAllocations
  \/ Pause
  \/ Unpause
  \/ ReturnToCaller

Spec == Init /\ [][Next]_vars

\* ------------------------------------------------- authorization (SpecAuth)
\* Every state-changing entry point, invoked with and without the host
\* finding the named address to have authorized the call.  Callers present
\* their current nonce.
StateChangingOps ==
  {"initialize_split", "update_split", "import_snapshot", "distribute_usdc",
   "pause", "unpause", "set_pause_admin", "set_upgrade_admin", "set_version",
   "create_remittance_schedule", "modify_remittance_schedule",
   "cancel_remittance_schedule"}

AuthChoices == BOOLEAN
AdminInputs == {"bob"}
VersionInputs == {CONTRACT_VERSION + 1}
ScheduleAmounts == {0, 5}
DueInputs == {0, 9}
IntervalInputs == {0, 3}

InitializeSplitBy(callers, auths) ==
  \E owner \in callers, auth \in auths :
    Invoke("initialize_split", owner, auth, nonces[owner], <<50, 30, 15, 5>>, NoSnapshot, 0,
           HostFrame(initialize_split(State, owner, auth, nonces[owner], <<50, 30, 15, 5>>)))

UpdateSplitBy(callers, auths) ==
  \E caller \in callers, auth \in auths :
    Invoke("update_split", caller, auth, nonces[caller], <<25, 25, 25, 25>>, NoSnapshot, 0,
           HostFrame(update_split(State, caller, auth, nonces[caller], <<25, 25, 25, 25>>)))

ImportSnapshotBy(callers, auths) ==
  \E caller \in callers, auth \in auths :
    LET c == SplitConfig(caller, <<33, 33, 33, 1>>, 0, TRUE)
        snap == ExportSnapshot(SNAPSHOT_VERSION, compute_checksum(SNAPSHOT_VERSION, c), c)
    IN Invoke("import_snapshot", caller, auth, nonces[caller], Percents(c), snap, 0,
              HostFrame(import_snapshot(State, caller, auth, nonces[caller], snap)))

DistributeUsdcBy(callers, auths) ==
  \E from \in callers, auth \in auths, accounts \in AccountGroups,
     total_amount \in {0, InitialBalance} :
    Invoke("distribute_usdc", from, auth, nonces[from], <<>>, NoSnapshot, total_amount,
           HostFrame(distribute_usdc(State, from, auth, nonces[from], accounts, total_amount)))

PauseBy(callers, auths) ==
  \E caller \in callers, auth \in auths :
    Invoke("pause", caller, auth, 0, <<>>, NoSnapshot, 0, HostFrame(pause(State, caller, auth)))

UnpauseBy(callers, auths) ==
  \E caller \in callers, auth \in auths :
    Invoke("unpause", caller, auth, 0, <<>>, NoSnapshot, 0, HostFrame(unpause(State, caller, auth)))

SetPauseAdminBy(callers, auths) ==
  \E caller \in callers, auth \in auths, new_admin \in AdminInputs :
    Invoke("set_pause_admin", caller, auth, 0, <<>>, NoSnapshot, 0,
           HostFrame(set_pause_admin(State, caller, auth, new_admin)))

SetUpgradeAdminBy(callers, auths) ==
  \E caller \in callers, auth \in auths, new_admin \in AdminInputs :
    Invoke("set_upgrade_admin", caller, auth, 0, <<>>, NoSnapshot, 0,
           HostFrame(set_upgrade_admin(State, caller, auth, new_admin)))

SetVersionBy(callers, auths) ==
  \E caller \in callers, auth \in auths, new_version \in VersionInputs :
    Invoke("set_version", caller, auth, 0, <<>>, NoSnapshot, 0,
           HostFrame(set_version(State, caller, auth, new_version)))

CreateRemittanceScheduleBy(callers, auths) ==
  \E owner \in callers, auth \in auths :
    /\ Cardinality(DOMAIN schedules) < MaxSchedules
    /\ Invoke("create_remittance_schedule", owner, auth, 0, <<>>, NoSnapshot, 5,
              HostFrame(create_remittance_schedule(State, owner, auth, 5, 9, 0)))

ModifyRemittanceScheduleBy(callers, auths) ==
  \E caller \in callers, auth \in auths :
    Invoke("modify_remittance_schedule", caller, auth, 0, <<>>, NoSnapshot, 5,
           HostFrame(modify_remittance_schedule(State, caller, auth, 1, 5, 9, 3)))

CancelRemittanceScheduleBy(callers, auths) ==
  \E caller \in callers, auth \in auths :
    Invoke("cancel_remittance_schedule", caller, auth, 0, <<>>, NoSnapshot, 0,
           HostFrame(cancel_remittance_schedule(State, caller, auth, 1)))

AuthInitializeSplit == InitializeSplitBy(Addr, AuthChoices)

AuthUpdateSplit == UpdateSplitBy(Addr, AuthChoices)

AuthImportSnapshot == ImportSnapshotBy(Addr, AuthChoices)

AuthDistributeUsdc == DistributeUsdcBy(Addr, AuthChoices)

AuthPause == PauseBy(Addr, AuthChoices)

AuthUnpause == UnpauseBy(Addr, AuthChoices)

AuthSetPauseAdmin == SetPauseAdminBy(Addr, AuthChoices)

AuthSetUpgradeAdmin == SetUpgradeAdminBy(Addr, AuthChoices)

AuthSetVersion == SetVersionBy(Addr, AuthChoices)

AuthCreateRemittanceSchedule == CreateRemittanceScheduleBy({"alice"}, AuthChoices)

AuthModifyRemittanceSchedule == ModifyRemittanceScheduleBy(Addr, AuthChoices)

AuthCancelRemittanceSchedule == CancelRemittanceScheduleBy(Addr, AuthChoices)

NextAuth ==
  \/ AuthInitializeSplit
  \/ AuthUpdateSplit
  \/ AuthImportSnapshot
  \/ AuthDistributeUsdc
  \/ AuthPause
  \/ AuthUnpause
  \/ AuthSetPauseAdmin
  \/ AuthSetUpgradeAdmin
  \/ AuthSetVersion
  \/ AuthCreateRemittanceSchedule
  \/ AuthModifyRemittanceSchedule
  \/ AuthCancelRemittanceSchedule
  \/ ReturnToCaller

SpecAuth == Init /\ [][NextAuth]_vars


\* ------------------------------------------------ instance lifetime (SpecTtl)
\* The owner's authorized calls of every state-changing entry point, with the
\* ledger closing in between.  The steps bring a freshly extended lifetime to
\* just above the threshold, to exactly the threshold, and past its end.
LedgerSteps ==
  { INSTANCE_BUMP_AMOUNT - INSTANCE_LIFETIME_THRESHOLD - 1,
    INSTANCE_BUMP_AMOUNT - INSTANCE_LIFETIME_THRESHOLD,
    INSTANCE_BUMP_AMOUNT + 1 }

AdvanceLedger ==
  \E d \in LedgerSteps :
    /\ last = NoCall
    /\ ledger_seq + d <= MaxLedgerBumps * INSTANCE_BUMP_AMOUNT
    /\ ledger_seq' = ledger_seq + d
    /\ UNCHANGED <<config, split, nonces, audit, paused, pause_adm, upg_adm, stored_version,
                   schedules, next_rsch, live_until, event_log, ok_calls, balances,
                   timestamp, overflow_checks, used, issued, contract, records, pager, last>>

TtlInitializeSplit == InitializeSplitBy({"alice"}, {TRUE})

TtlUpdateSplit == UpdateSplitBy({"alice"}, {TRUE})

TtlImportSnapshot == ImportSnapshotBy({"alice"}, {TRUE})

TtlDistributeUsdc == DistributeUsdcBy({"alice"}, {TRUE})

TtlPause == PauseBy({"alice"}, {TRUE})

TtlUnpause == UnpauseBy({"alice"}, {TRUE})

TtlSetPauseAdmin == SetPauseAdminBy({"alice"}, {TRUE})

TtlSetUpgradeAdmin == SetUpgradeAdminBy({"alice"}, {TRUE})

TtlSetVersion == SetVersionBy({"alice"}, {TRUE})

TtlCreateRemittanceSchedule == CreateRemittanceScheduleBy({"alice"}, {TRUE})

TtlModifyRemittanceSchedule == ModifyRemittanceScheduleBy({"alice"}, {TRUE})

TtlCancelRemittanceSchedule == CancelRemittanceScheduleBy({"alice"}, {TRUE})

NextTtl ==
  \/ TtlInitializeSplit
  \/ TtlUpdateSplit
  \/ TtlImportSnapshot
  \/ TtlDistributeUsdc
  \/ TtlPause
  \/ TtlUnpause
  \/ TtlSetPauseAdmin
  \/ TtlSetUpgradeAdmin
  \/ TtlSetVersion
  \/ TtlCreateRemittanceSchedule
  \/ TtlModifyRemittanceSchedule
  \/ TtlCancelRemittanceSchedule
  \/ AdvanceLedger
  \/ ReturnToCaller

SpecTtl == Init /\ [][NextTtl]_vars


\* --------------------------------------------- remittance schedules (SpecSchedules)
\* Creation, modification and cancellation of schedules by either address,
\* with valid and invalid amounts and due dates, for stored and unknown ids.
ScheduleIds == 0 .. MaxSchedules + 1

SchCreateRemittanceSchedule ==
  \E owner \in Addr, auth \in AuthChoices, amount \in ScheduleAmounts,
     next_due \in DueInputs, interval \in IntervalInputs :
    /\ Cardinality(DOMAIN schedules) < MaxSchedules
    /\ Invoke("create_remittance_schedule", owner, auth, 0, <<>>, NoSnapshot, amount,
              HostFrame(create_remittance_schedule(State, owner, auth, amount, next_due,
                                                   interval)))

SchModifyRemittanceSchedule ==
  \E caller \in Addr, schedule_id \in ScheduleIds, amount \in ScheduleAmounts,
     next_due \in DueInputs, interval \in IntervalInputs :
    Invoke("modify_remittance_schedule", caller, TRUE, 0, <<>>, NoSnapshot, amount,
           HostFrame(modify_remittance_schedule(State, caller, TRUE, schedule_id, amount,
                                                next_due, interval)))

SchCancelRemittanceSchedule ==
  \E caller \in Addr, schedule_id \in ScheduleIds :
    Invoke("cancel_remittance_schedule", caller, TRUE, 0, <<>>, NoSnapshot, 0,
           HostFrame(cancel_remittance_schedule(State, caller, TRUE, schedule_id)))

NextSchedules ==
  \/ SchCreateRemittanceSchedule
  \/ SchModifyRemittanceSchedule
  \/ SchCancelRemittanceSchedule
  \/ ReturnToCaller

SpecSchedules == Init /\ [][NextSchedules]_vars


\* ------------------------------------------------------- events (SpecEvents)
\* initialize_split, update_split and calculate_split in an environment that
\* records the published events.
EvInitializeSplit ==
  \E owner \in Addr, nonce \in 0..1, p \in {<<50, 30, 15, 5>>, <<40, 30, 15, 5>>} :
    InvokeRecorded("initialize_split", owner, TRUE, nonce, p, NoSnapshot, 0,
                   HostFrame(initialize_split(State, owner, TRUE, nonce, p)))

EvUpdateSplit ==
  \E caller \in Addr, nonce \in 0..1, p \in {<<25, 25, 25, 25>>, <<40, 30, 15, 5>>} :
    InvokeRecorded("update_split", caller, TRUE, nonce, p, NoSnapshot, 0,
                   HostFrame(update_split(State, caller, TRUE, nonce, p)))

EvCalculateSplit ==
  \E total_amount \in {0, 7, 100, I128_MAX} :
    InvokeRecorded("calculate_split", NoAddr, TRUE, 0, <<>>, NoSnapshot, total_amount,
                   HostFrame(calculate_split(State, total_amount)))

NextEvents ==
  \/ EvInitializeSplit
  \/ EvUpdateSplit
  \/ EvCalculateSplit
  \/ ReturnToCaller

SpecEvents == Init /\ [][NextEvents]_vars


\* ------------------------------------------ record collections (SpecRecords)
\* One of bill_payments, insurance and savings_goals: owners create records,
\* close them (pay_bill, deactivate_policy), add to goals, and a client pages
\* through one owner's records from cursor 0 until next_cursor is 0.
InitRecords ==
  /\ InitStorage
  /\ overflow_checks = TRUE
  /\ contract \in RecordContracts

RecordAmounts == {0, 5}
DepositAmounts == {0, 3}
LimitInputs == {1, MAX_PAGE_LIMIT, MAX_PAGE_LIMIT + 1}
RecordIds == 1 .. MaxRecords

CreateOp == [c \in RecordContracts |->
               IF c = "bill_payments" THEN "create_bill"
               ELSE IF c = "insurance" THEN "create_policy" ELSE "create_goal"]
CloseOp == [c \in {"bill_payments", "insurance"} |->
              IF c = "bill_payments" THEN "pay_bill" ELSE "deactivate_policy"]
RecordOps == {"create_bill", "create_policy", "create_goal", "pay_bill",
              "deactivate_policy", "add_to_goal"}

\* One invocation on the records contract; a failed one leaves the map as it was.
RecordCall(op, caller, amount, id, r) ==
  /\ last = NoCall
  /\ pager = NoPager
  /\ records' = IF r.err = "Ok" THEN r.recs ELSE records
  /\ last' = [NoCall EXCEPT !.op = op, !.caller = caller, !.amount = amount,
                            !.id = id, !.err = r.err]
  /\ UNCHANGED <<config, split, nonces, audit, paused, pause_adm, upg_adm, stored_version,
                 schedules, next_rsch, ledger_seq, live_until, event_log, ok_calls,
                 balances, timestamp, overflow_checks, used, issued, contract, pager>>

CreateRecord ==
  \E owner \in Addr, amount \in RecordAmounts :
    /\ Len(records) < MaxRecords
    /\ LET r == create_record(records, owner, amount)
       IN RecordCall(CreateOp[contract], owner, amount, r.val, r)

CloseRecord ==
  \E caller \in Addr, id \in RecordIds :
    /\ contract \in DOMAIN CloseOp
    /\ RecordCall(CloseOp[contract], caller, 0, id, close_record(records, caller, id))

AddToGoal ==
  \E caller \in Addr, goal_id \in RecordIds, amount \in DepositAmounts :
    /\ contract = "savings_goals"
    /\ LET r == add_to_goal(records, caller, goal_id, amount)
       IN /\ \A i \in DOMAIN r.recs : r.recs[i].current_amount <= MaxSaved
          /\ RecordCall("add_to_goal", caller, amount, goal_id, r)

StartPaging ==
  \E owner \in Addr, limit \in LimitInputs :
    /\ last = NoCall
    /\ pager = NoPager
    /\ pager' = [NoPager EXCEPT !.owner = owner, !.limit = limit]
    /\ UNCHANGED <<config, split, nonces, audit, paused, pause_adm, upg_adm, stored_version,
                   schedules, next_rsch, ledger_seq, live_until, event_log, ok_calls,
                   balances, timestamp, overflow_checks, used, issued, contract, records,
                   last>>

\* One round of the client loop: fetch the page at the cursor, count it, and
\* go on from next_cursor unless it is 0.
FetchPage ==
  /\ pager # NoPager
  /\ ~pager.done
  /\ LET page == get_page(contract, records, pager.owner, pager.cursor, pager.limit)
     IN pager' = [pager EXCEPT !.cursor = page.next_cursor,
                               !.seen = @ \cup page.items,
                               !.collected = @ + page.count,
                               !.pages = @ + 1,
                               !.largest = IF page.count > @ THEN page.count ELSE @,
                               !.done = (page.next_cursor = 0)]
  /\ UNCHANGED <<config, split, nonces, audit, paused, pause_adm, upg_adm, stored_version,
                 schedules, next_rsch, ledger_seq, live_until, event_log, ok_calls,
                 balances, timestamp, overflow_checks, used, issued, contract, records,
                 last>>

FinishPaging ==
  /\ pager.done
  /\ pager' = NoPager
  /\ UNCHANGED <<config, split, nonces, audit, paused, pause_adm, upg_adm, stored_version,
                 schedules, next_rsch, ledger_seq, live_until, event_log, ok_calls,
                 balances, timestamp, overflow_checks, used, issued, contract, records,
                 last>>

NextRecords ==
  \/ CreateRecord
  \/ CloseRecord
  \/ AddToGoal
  \/ StartPaging
  \/ FetchPage
  \/ FinishPaging
  \/ ReturnToCaller

\* The client keeps calling until next_cursor is 0.
SpecRecords == InitRecords /\ [][NextRecords]_vars /\ WF_vars(FetchPage)


\* ------------------------------------------------------ failed calls (SpecErrors)
\* Every entry point, with the arguments that make it fail among those tried:
\* wrong nonces, percentages that do not sum to 100, malformed snapshots,
\* amounts the sender does not hold, callers that are not the owner or the
\* admin, unknown schedules.  An address has made no nonce-bearing call yet,
\* or as many distribute_usdc calls as a u64 counts: its next initialize_split,
\* import_snapshot or distribute_usdc fails in increment_nonce, after the
\* writes of the call.  The build has overflow checks on, so that a u32 sum
\* past u32::MAX is one more way to fail.
NonceInputs == {0, U64_MAX}

InitErrors ==
  /\ config = NoConfig
  /\ split = NoSplit
  /\ nonces \in [Addr -> NonceInputs]
  /\ audit = <<>>
  /\ paused = FALSE
  /\ pause_adm = NoAddr
  /\ upg_adm = NoAddr
  /\ stored_version = None
  /\ schedules = <<>>
  /\ next_rsch = None
  /\ ledger_seq = 0
  /\ live_until = MIN_PERSISTENT_ENTRY_TTL
  /\ event_log = <<>>
  /\ ok_calls = [op \in RecordedOps |-> 0]
  /\ balances = [a \in Accounts |-> IF a = "alice" THEN InitialBalance ELSE 0]
  /\ timestamp = 0
  /\ overflow_checks = TRUE
  /\ used = {}
  /\ issued = <<>>
  /\ contract = "remittance_split"
  /\ records = <<>>
  /\ pager = NoPager
  /\ last = NoCall

NextErrors ==
  \/ InitializeSplit
  \/ UpdateSplit
  \/ CalculateSplit
  \/ InitializeSplitBy(Addr, {TRUE})
  \/ ImportSnapshotBy(Addr, {TRUE})
  \/ DistributeUsdcBy(Addr, {TRUE})
  \/ PauseBy(Addr, {TRUE})
  \/ UnpauseBy(Addr, {TRUE})
  \/ SetPauseAdminBy(Addr, {TRUE})
  \/ SetUpgradeAdminBy(Addr, {TRUE})
  \/ SetVersionBy(Addr, {TRUE})
  \/ CreateRemittanceScheduleBy({"alice"}, {TRUE})
  \/ ModifyRemittanceScheduleBy({"bob"}, {TRUE})
  \/ CancelRemittanceScheduleBy(Addr, {TRUE})
  \/ ReturnToCaller

SpecErrors == InitErrors /\ [][NextErrors]_vars


\* ---------------------------------------------------- allocations (SpecAllocations)
\* Splits that give one category everything, a split that leaves insurance
\* nothing while the other three do not divide the total evenly, and a split
\* whose u32 sum wraps to 100; totals that are split and distributed under
\* them.  Callers present their current nonce.
AllocationPercents ==
  { <<100, 0, 0, 0>>, <<0, 0, 0, 100>>, <<33, 33, 34, 0>>, <<U32_MAX, 101, 0, 0>> }

DistributeAmounts == { 1, 7, InitialBalance + 1 }

AllocInitializeSplit ==
  \E owner \in Addr, p \in AllocationPercents :
    Invoke("initialize_split", owner, TRUE, nonces[owner], p, NoSnapshot, 0,
           HostFrame(initialize_split(State, owner, TRUE, nonces[owner], p)))

AllocUpdateSplit ==
  \E caller \in Addr, p \in AllocationPercents :
    Invoke("update_split", caller, TRUE, nonces[caller], p, NoSnapshot, 0,
           HostFrame(update_split(State, caller, TRUE, nonces[caller], p)))

AllocDistributeUsdc ==
  \E from \in Addr, accounts \in AccountGroups, total_amount \in DistributeAmounts :
    Invoke("distribute_usdc", from, TRUE, nonces[from], <<>>, NoSnapshot, total_amount,
           HostFrame(distribute_usdc(State, from, TRUE, nonces[from], accounts, total_amount)))

NextAllocations ==
  \/ AllocInitializeSplit
  \/ AllocUpdateSplit
  \/ AllocDistributeUsdc
  \/ CalculateSplit
  \/ ReturnToCaller

SpecAllocations == Init /\ [][NextAllocations]_vars


\* ------------------------------------------------------------------ claims
\* A step that submits an invocation of one of the entry points in ops.
Calls(ops) == last = NoCall /\ last'.op \in ops

Succeeds == last'.err = "Ok"

PctSum(p) == p[1] + p[2] + p[3] + p[4]

\* C1: replay protection.  For every address a and nonce n, at most one call
\* among initialize_split, update_split, distribute_usdc and import_snapshot
\* made by a with nonce n succeeds: a successful call never carries an
\* <<address, nonce>> pair that an earlier successful call carried.
C1_ReplayProtection ==
  [][(Calls(NonceOps) /\ Succeeds) => <<last'.caller, last'.nonce>> \notin used]_vars

\* C2: every successful initialize_split, update_split, distribute_usdc or
\* import_snapshot increases the nonce of its caller by exactly 1 and leaves
\* the nonce of every other address unchanged.
C2_NonceIncrementsByOne ==
  [][(Calls(NonceOps) /\ Succeeds)
       => nonces' = [nonces EXCEPT ![last'.caller] = @ + 1]]_vars

\* C3: an authorized initialize_split or update_split (contract not paused),
\* import_snapshot, or distribute_usdc with total_amount > 0, whose nonce
\* differs from the caller's stored nonce returns InvalidNonce and leaves
\* config, split, nonces, audit log, pause state and token balances as before.
C3_InvalidNonceRejected ==
  [][(/\ Calls(NonceOps)
      /\ last'.auth
      /\ last'.nonce # get_nonce_value(State, last'.caller)
      /\ (last'.op \in {"initialize_split", "update_split"} => ~paused)
      /\ (last'.op = "distribute_usdc" => last'.amount > 0))
       => (/\ last'.err = "InvalidNonce"
           /\ UNCHANGED <<config, split, nonces, audit, paused, pause_adm, balances>>)]_vars

C3_Witness ==
  /\ last.op = "distribute_usdc"
  /\ last.amount > 0
  /\ last.nonce # nonces[last.caller]
  /\ last.err = "InvalidNonce"

\* C4: initialization happens at most once.  Once an initialize_split has
\* succeeded (the audit log holds its entry), every later authorized
\* initialize_split presenting the caller's current nonce while the contract
\* is not paused returns AlreadyInitialized and leaves CONFIG and SPLIT
\* unchanged.
InitSucceeded ==
  \E i \in 1..Len(audit) : audit[i].operation = "init" /\ audit[i].success

C4_InitializeOnce ==
  [][(/\ Calls({"initialize_split"})
      /\ InitSucceeded
      /\ last'.auth
      /\ ~paused
      /\ last'.nonce = get_nonce_value(State, last'.caller))
       => (last'.err = "AlreadyInitialized" /\ UNCHANGED <<config, split>>)]_vars

C4_Witness ==
  /\ last.op = "initialize_split"
  /\ last.err = "AlreadyInitialized"
  /\ InitSucceeded
  /\ last.caller # config.v.owner
  /\ PctSum(last.pct) = 100

\* C5: with the contract initialized and not paused and the caller presenting
\* its own current nonce, update_split by an address other than config.owner
\* returns Unauthorized and leaves the configuration unchanged; by the owner
\* with percentages summing to 100 it succeeds and the four stored
\* percentages (CONFIG and SPLIT) are the ones passed.
C5_UpdateOwnerOnly ==
  [][(/\ Calls({"update_split"})
      /\ last'.auth
      /\ ~paused
      /\ config.some
      /\ last'.nonce = get_nonce_value(State, last'.caller))
       => /\ (last'.caller # config.v.owner
                => last'.err = "Unauthorized" /\ UNCHANGED <<config, split>>)
          /\ (last'.caller = config.v.owner /\ PctSum(last'.pct) = 100
                => /\ last'.err = "Ok"
                   /\ config'.some
                   /\ Percents(config'.v) = last'.pct
                   /\ config'.v.owner = config.v.owner
                   /\ split' = last'.pct)]_vars

C5_Witness ==
  /\ last.op = "update_split"
  /\ last.err = "Unauthorized"
  /\ config.some
  /\ last.caller # config.v.owner
  /\ last.nonce = nonces[last.caller]
  /\ ~paused


\* C6: initialize_split, update_split and import_snapshot reject four
\* percentages whose sum is not 100 with PercentagesDoNotSumTo100 when all
\* earlier checks pass (authorized, not paused, valid nonce, for
\* initialize_split no CONFIG yet, for update/import the caller is the owner,
\* for import a supported version and a matching checksum), and CONFIG and
\* SPLIT are unchanged by the rejected call.
C6_BadSumRejected ==
  [][(/\ Calls({"initialize_split", "update_split", "import_snapshot"})
      /\ last'.auth
      /\ last'.nonce = get_nonce_value(State, last'.caller)
      /\ (last'.op \in {"initialize_split", "update_split"} => ~paused)
      /\ (last'.op = "initialize_split" => ~config.some)
      /\ (last'.op \in {"update_split", "import_snapshot"}
            => config.some /\ config.v.owner = last'.caller)
      /\ (last'.op = "import_snapshot"
            => /\ last'.version = SNAPSHOT_VERSION
               /\ last'.checksum = compute_checksum(last'.version,
                                     SplitConfig(NoAddr, last'.pct, 0, TRUE)))
      /\ PctSum(last'.pct) # 100)
       => (last'.err = "PercentagesDoNotSumTo100" /\ UNCHANGED <<config, split>>)]_vars

\* C7: in every reachable state the four percentages returned by get_split
\* are each between 0 and 100 and sum to exactly 100.
C7_SplitPercentagesValid ==
  LET sp == get_split(State)
  IN /\ \A i \in 1..4 : sp[i] >= 0 /\ sp[i] <= 100
     /\ PctSum(sp) = 100

\* C8: whenever calculate_split or get_split_allocations succeeds (which needs
\* total_amount > 0), the four returned amounts sum to exactly total_amount.
C8_AmountsSumToTotal ==
  (last.op \in {"calculate_split", "get_split_allocations"} /\ last.err = "Ok")
    => /\ last.amount > 0
       /\ Len(last.amounts) = 4
       /\ last.amounts[1] + last.amounts[2] + last.amounts[3] + last.amounts[4]
            = last.amount

C8_Witness ==
  /\ last.op = "get_split_allocations"
  /\ last.err = "Ok"
  /\ last.amount = 7
  /\ split = <<33, 33, 33, 1>>
  /\ last.amounts = <<2, 2, 2, 1>>

\* C9: a successful calculate_split(total_amount) returns, for the stored
\* split, floor(total_amount * spending_percent / 100),
\* floor(total_amount * savings_percent / 100),
\* floor(total_amount * bills_percent / 100) and, as insurance,
\* total_amount minus these three, in that order.
C9_AmountsByFormula ==
  (last.op = "calculate_split" /\ last.err = "Ok")
    => LET sp == get_split(State)
           t  == last.amount
           spending == (t * sp[1]) \div 100
           savings  == (t * sp[2]) \div 100
           bills    == (t * sp[3]) \div 100
       IN last.amounts = <<spending, savings, bills, t - spending - savings - bills>>

C9_Witness ==
  /\ last.op = "calculate_split"
  /\ last.err = "Ok"
  /\ last.amount = 7
  /\ config.some
  /\ split = <<50, 30, 15, 5>>
  /\ last.amounts = <<3, 2, 1, 1>>

C11_NonPositiveAmountRejected ==
  (last.op = "calculate_split" /\ last.amount <= 0)
    => /\ last.err = "InvalidAmount"
       /\ last.amounts = <<>>
       /\ last.events = <<>>

C11_Witness ==
  /\ last.op = "calculate_split"
  /\ last.amount = 0
  /\ last.err = "InvalidAmount"
  /\ config.some

\* C12: until the first successful initialize_split, get_config returns None
\* and get_split returns the default <<50, 30, 15, 5>>; right after a
\* successful initialize_split(owner, p1, p2, p3, p4), get_config returns a
\* configuration with that owner, those four percentages and
\* initialized = true.
C12_DefaultsUntilInitialized ==
  /\ ~InitSucceeded
       => /\ ~get_config(State).some
          /\ get_split(State) = <<50, 30, 15, 5>>
  /\ (last.op = "initialize_split" /\ last.err = "Ok")
       => /\ get_config(State).some
          /\ get_config(State).v.owner = last.caller
          /\ Percents(get_config(State).v) = last.pct
          /\ get_config(State).v.initialized

C12_Witness ==
  /\ last.op = "initialize_split"
  /\ last.err = "Ok"
  /\ last.caller = "bob"
  /\ last.pct = <<33, 33, 33, 1>>
  /\ get_config(State).v.owner = "bob"

\* Everything an invocation can change: instance storage, the lifetime of the
\* instance entry, and the balances of the token contract.
Storage == <<config, split, nonces, audit, paused, pause_adm, upg_adm, stored_version,
             schedules, next_rsch, live_until, balances>>

\* C13: every state-changing entry point (initialize_split, update_split,
\* import_snapshot, distribute_usdc, pause, unpause, set_pause_admin,
\* set_upgrade_admin, set_version, create_, modify_ and
\* cancel_remittance_schedule) changes state only if the owner / caller / from
\* address it names has authorized the call: an invocation the host does not
\* find authorized fails and leaves all state unchanged.
C13_NoChangeWithoutAuth ==
  [][(Calls(StateChangingOps) /\ ~last'.auth)
       => (last'.err # "Ok" /\ UNCHANGED Storage)]_vars

C13_Witness ==
  /\ last.op = "cancel_remittance_schedule"
  /\ ~last.auth
  /\ last.err = "AuthFailed"
  /\ 1 \in DOMAIN schedules
  /\ schedules[1].owner = last.caller
  /\ schedules[1].active

\* C14: every successful state-mutating call (initialize_split, update_split,
\* import_snapshot, distribute_usdc, pause, unpause, set_pause_admin,
\* set_upgrade_admin, set_version and the three schedule operations)
\* re-applies the lifetime policy: when the remaining lifetime of the instance
\* entry is at or below INSTANCE_LIFETIME_THRESHOLD before the call, it is
\* INSTANCE_BUMP_AMOUNT after it.
C14_EveryMutatingCallExtendsTtl ==
  [][(/\ Calls(StateChangingOps)
      /\ Succeeds
      /\ get_ttl(State) <= INSTANCE_LIFETIME_THRESHOLD)
       => live_until' - ledger_seq' = INSTANCE_BUMP_AMOUNT]_vars

\* C15: a successful initialize_split or update_split at ledger L, made while
\* the remaining lifetime of the instance entry is at or below
\* INSTANCE_LIFETIME_THRESHOLD, leaves the entry live until at least
\* L + INSTANCE_BUMP_AMOUNT; and ledgers closing without a call change neither
\* the stored configuration nor that lifetime, so the configuration stays
\* readable with its latest values up to ledger L + INSTANCE_BUMP_AMOUNT.
C15_ConfigOutlivesBump ==
  /\ [][(/\ Calls({"initialize_split", "update_split"})
         /\ Succeeds
         /\ get_ttl(State) <= INSTANCE_LIFETIME_THRESHOLD)
          => /\ ledger_seq' = ledger_seq
             /\ live_until' >= ledger_seq + INSTANCE_BUMP_AMOUNT]_vars
  /\ [][(last = NoCall /\ last' = NoCall) => UNCHANGED <<config, split, live_until>>]_vars

C15_Witness ==
  /\ last.op = "update_split"
  /\ last.err = "Ok"
  /\ ledger_seq = INSTANCE_BUMP_AMOUNT - INSTANCE_LIFETIME_THRESHOLD
  /\ live_until = ledger_seq + INSTANCE_BUMP_AMOUNT
  /\ Percents(config.v) = last.pct

\* C16: create_remittance_schedule issues ids from a counter: the k-th
\* successful creation returns k, so ids are strictly increasing and never
\* reused (also after a cancellation), and the set of stored schedule ids is
\* exactly 1..NEXT_RSCH.
C16_ScheduleIdsFromCounter ==
  LET n == IF next_rsch.some THEN next_rsch.v ELSE 0
  IN /\ \A k \in 1..Len(issued) : issued[k] = k
     /\ Len(issued) = n
     /\ DOMAIN schedules = 1..n
     /\ \A i \in DOMAIN schedules : schedules[i].id = i

C16_Witness ==
  /\ last.op = "create_remittance_schedule"
  /\ last.err = "Ok"
  /\ last.id = 2
  /\ issued = <<1, 2>>
  /\ ~schedules[1].active
  /\ schedules[2].active

\* C17: a successful initialize_split publishes exactly one event and every
\* successful calculate_split exactly two, so one initialization and k
\* calculations (and nothing else that publishes) leave exactly 1 + 2k events;
\* the last event of a successful initialize_split has topics
\* (split, Initialized), the last event of a successful update_split has
\* topics (split, Updated).
C17_EventCounts ==
  LET n == Len(event_log)
  IN /\ (last.op = "initialize_split" /\ last.err = "Ok")
          => /\ Len(last.events) = 1
             /\ event_log[n] = <<"split", "Initialized">>
     /\ (last.op = "calculate_split" /\ last.err = "Ok") => Len(last.events) = 2
     /\ (last.op = "update_split" /\ last.err = "Ok")
          => event_log[n] = <<"split", "Updated">>
     /\ (ok_calls["initialize_split"] = 1 /\ ok_calls["update_split"] = 0)
          => n = 1 + 2 * ok_calls["calculate_split"]

C17_Witness ==
  /\ last.op = "calculate_split"
  /\ last.err = "Ok"
  /\ ok_calls = [op \in RecordedOps |->
                   IF op = "initialize_split" THEN 1
                   ELSE IF op = "calculate_split" THEN 2 ELSE 0]
  /\ Len(event_log) = 5
  /\ event_log[1] = <<"split", "Initialized">>

\* C18: cursor pagination in bill_payments (get_unpaid_bills), insurance
\* (get_active_policies) and savings_goals (get_goals): starting from cursor 0
\* and passing the returned next_cursor until it is 0, the loop terminates,
\* the pages together hold every matching record of the owner exactly once,
\* and no page holds more than MAX_PAGE_LIMIT records.
C18_PaginationComplete ==
  LET M == {i \in DOMAIN records : matches(contract, records[i], pager.owner)}
  IN /\ [](pager # NoPager
             => /\ pager.largest <= MAX_PAGE_LIMIT
                /\ pager.seen \subseteq M
                /\ pager.collected = Cardinality(pager.seen)
                /\ pager.done => pager.seen = M)
     /\ (pager # NoPager) ~> (pager # NoPager /\ pager.done)

C18_Witness ==
  /\ pager.done
  /\ pager.limit = MAX_PAGE_LIMIT + 1
  /\ pager.largest = MAX_PAGE_LIMIT
  /\ pager.collected > MAX_PAGE_LIMIT
  /\ pager.pages >= 2

\* C19: records are isolated per owner although all owners share one map: a
\* call by one address leaves get_total_unpaid / get_total_monthly_premium,
\* get_all_goals and every page of get_unpaid_bills / get_active_policies of
\* every other owner unchanged, and a successful creation adds exactly the new
\* record to what its owner sees.
C19_OwnerIsolation ==
  [][(last = NoCall /\ last'.op \in RecordOps)
       => /\ \A o \in Addr \ {last'.caller} :
               /\ get_total(contract, records', o) = get_total(contract, records, o)
               /\ get_all(records', o) = get_all(records, o)
               /\ \A cursor \in 0..MaxRecords, limit \in LimitInputs :
                    get_page(contract, records', o, cursor, limit)
                      = get_page(contract, records, o, cursor, limit)
          /\ (last'.op \in {"create_bill", "create_policy", "create_goal"}
                /\ last'.err = "Ok")
               => /\ get_all(records', last'.caller)
                       = get_all(records, last'.caller) \cup {last'.id}
                  /\ last'.id \notin DOMAIN records
                  /\ get_total(contract, records', last'.caller)
                       = get_total(contract, records, last'.caller) + last'.amount]_vars

C19_Witness ==
  /\ contract = "bill_payments"
  /\ last.op = "create_bill"
  /\ last.err = "Ok"
  /\ last.caller = "bob"
  /\ get_total(contract, records, "alice") = 10
  /\ get_total(contract, records, "bob") = 5

\* C20: savings_goals add_to_goal called by an address that is not the owner
\* of the goal fails, and the goal's current_amount is what it was before.
C20_AddToGoalOwnerOnly ==
  [][(/\ last = NoCall
      /\ last'.op = "add_to_goal"
      /\ get_goal(records, last'.id).some
      /\ get_goal(records, last'.id).v.owner # last'.caller)
       => /\ last'.err # "Ok"
          /\ get_goal(records', last'.id).v.current_amount
               = get_goal(records, last'.id).v.current_amount]_vars

C20_Witness ==
  /\ last.op = "add_to_goal"
  /\ last.err = "Unauthorized"
  /\ last.amount > 0
  /\ records[last.id].owner # last.caller
  /\ records[last.id].current_amount = 3

\* What C21 names: CONFIG, SPLIT, the nonces, the pause flag, the pause and
\* upgrade admins, the version and the schedules.
NamedStorage == <<config, split, nonces, paused, pause_adm, upg_adm, stored_version,
                  schedules>>

C22_OnlyOwnerChangesConfig ==
  [][(last = NoCall /\ last' # NoCall /\ config.some /\ last'.caller # config.v.owner)
       => /\ UNCHANGED <<config, split>>
          /\ last'.op \in {"update_split", "import_snapshot"} => last'.err # "Ok"]_vars

\* An authorized import_snapshot of a well-formed snapshot by an address that
\* is not the owner: rejected, the stored split is not the snapshot's.
C22_Witness ==
  /\ last.op = "import_snapshot"
  /\ last.auth
  /\ last.err = "Unauthorized"
  /\ config.some
  /\ last.caller # config.v.owner
  /\ split # last.pct

\* C23: the owner recorded by initialize_split is permanent.  A successful
\* initialize_split by address o stores o as config.owner, and no later
\* invocation (update_split, import_snapshot or any other) changes the owner
\* that get_config returns.
C23_OwnerPermanent ==
  [][/\ (Calls({"initialize_split"}) /\ Succeeds)
          => get_config(State)'.some /\ get_config(State)'.v.owner = last'.caller
     /\ get_config(State).some
          => get_config(State)'.some /\ get_config(State)'.v.owner = get_config(State).v.owner]_vars

\* The balances after `from` has paid amounts[1..4] to the four accounts of
\* the group and has been debited total.
Distributed(from, accounts, amounts, total) ==
  [a \in Accounts |->
     balances[a]
       + (IF a = accounts.spending THEN amounts[1] ELSE 0)
       + (IF a = accounts.savings THEN amounts[2] ELSE 0)
       + (IF a = accounts.bills THEN amounts[3] ELSE 0)
       + (IF a = accounts.insurance THEN amounts[4] ELSE 0)
       - (IF a = from THEN total ELSE 0)]

\* C24: a successful distribute_usdc(from, accounts, total_amount) pays the
\* spending, savings, bills and insurance accounts exactly the four amounts
\* that calculate_split yields for total_amount under the stored split, debits
\* `from` exactly total_amount, changes no other balance, and increments the
\* nonce of `from` by one; a distribute_usdc that fails in a transfer leaves
\* the nonce as it was.
C24_DistributeMatchesSplit ==
  [][Calls({"distribute_usdc"})
       => LET from == last'.caller
              calc == calculate_split(State, last'.amount)
          IN IF Succeeds
               THEN /\ calc.err = "Ok"
                    /\ \E accounts \in AccountGroups :
                         balances' = Distributed(from, accounts, calc.val, last'.amount)
                    /\ nonces' = [nonces EXCEPT ![from] = @ + 1]
               ELSE /\ balances' = balances
                    /\ nonces' = nonces]_vars

\* The stored split is a valid one: every percentage in 0..100, sum 100.
ValidSplit(p) == (\A i \in 1..4 : p[i] \in 0..100) /\ PctSum(p) = 100

\* A calculate_split of a positive total that succeeded under a valid split.
Allocated ==
  /\ last.op = "calculate_split"
  /\ last.err = "Ok"
  /\ last.amount > 0
  /\ ValidSplit(get_split(State))

\* C25 as stated: for every valid split and every total_amount > 0 for which
\* calculate_split succeeds, each category whose stored percentage is 0
\* (spending, savings, bills or insurance) receives 0, and a category whose
\* stored percentage is 100 receives the whole total_amount.
C25_ZeroPercentGetsNothing ==
  Allocated =>
    \A i \in 1..4 :
      /\ get_split(State)[i] = 0 => last.amounts[i] = 0
      /\ get_split(State)[i] = 100 => last.amounts[i] = last.amount

\* C25, amended: under the same conditions, each of spending, savings and
\* bills whose stored percentage is 0 receives 0, and a category whose stored
\* percentage is 100 receives the whole total_amount; insurance at 0 percent
\* receives what the three rounded-down shares leave of total_amount, which
\* is 0, 1 or 2.
C25_ZeroPercentGetsNothingButInsurance ==
  Allocated =>
    /\ \A i \in 1..3 : get_split(State)[i] = 0 => last.amounts[i] = 0
    /\ \A i \in 1..4 : get_split(State)[i] = 100 => last.amounts[i] = last.amount
    /\ get_split(State)[4] = 0 =>
         /\ last.amounts[4] = last.amount - last.amounts[1] - last.amounts[2] - last.amounts[3]
         /\ last.amounts[4] \in 0..2

\* Insurance at 0 percent receives a unit: 7 split 33/33/34/0 is 2, 2, 2, 1.
C25_Witness ==
  /\ Allocated
  /\ get_split(State) = <<33, 33, 34, 0>>
  /\ last.amount = 7
  /\ last.amounts = <<2, 2, 2, 1>>

====
